---- MODULE Spec2Model ----
(***************************************************************************)
(* Anchor-based bounding-box assignment of labs/06/bboxes_utils.py.        *)
(*                                                                         *)
(* One behaviour is one call of bboxes_training: the arguments are fixed   *)
(* in the initial state, every loop iteration of the function is one step, *)
(* and the call ends by returning (pc = "done") or by an exception of a    *)
(* tensor primitive (pc = "raised").                                       *)
(*                                                                         *)
(* Boxes have integer coordinates.  A float is a triple <<kind, n, d>>:    *)
(*   <<"rat", n, d>>  the quotient n/d in lowest terms, d > 0              *)
(*   <<"ln",  n, d>>  the natural logarithm of n/d (n/d > 0, n/d # 1)      *)
(*   <<"inf",0,1>>, <<"ninf",0,1>>, <<"nan",0,1>>  the IEEE specials       *)
(* so two floats are equal exactly when their triples are equal.           *)
(*                                                                         *)
(* Under Spec the arguments honour the caller contract of the encoder:     *)
(* anchors and gold boxes have positive height and width and four          *)
(* coordinates; SpecDegenerate adds boxes of zero area and SpecShapes      *)
(* boxes with three or five coordinates, SpecUncovered a gold box that no  *)
(* anchor overlaps.  FairSpec runs a call to its end, SpecAnyOrder takes   *)
(* the iterations of the Pass 2 loop in any order (visited holds the       *)
(* anchors that have had theirs), SpecRerun calls the function a second    *)
(* time with another threshold.  SpecGeometry and SpecCodec apply the pure *)
(* functions to arguments of their own, SpecCollate pads and filters the   *)
(* gold objects as the training script does.  storage names the memory     *)
(* object that holds each tensor.  Device placement of the tensors (line   *)
(* 120) is not part of the model.                                          *)
(***************************************************************************)
EXTENDS Integers, Sequences, FiniteSets, TLC

VARIABLES anchors, gold_classes, gold_bboxes, iou_threshold,
          pc, g, a, iou_matrix, assigned_gold,
          anchor_classes, anchor_bboxes, exception, storage, visited,
          fn, args, out

vars == <<anchors, gold_classes, gold_bboxes, iou_threshold,
          pc, g, a, iou_matrix, assigned_gold,
          anchor_classes, anchor_bboxes, exception, storage, visited,
          fn, args, out>>

inputs == <<anchors, gold_classes, gold_bboxes, iou_threshold>>

\* a direct call of one of the pure functions: the function applied last,
\* its arguments and its results
direct == <<fn, args, out>>

----------------------------------------------------------------------------
(* Bounds of the model. *)

MaxAnchors == 2
MaxGold == 2
MaxClass == 1
OrderAnchors == 3
GeomMaxCoord == 3
CodecMaxRows == 2
CollateMaxBatch == 2
CollateMaxLen == 2

----------------------------------------------------------------------------
(* Box layout. *)

TOP == 0
LEFT == 1
BOTTOM == 2
RIGHT == 3

Box(t, l, b, r) == [i \in 0..3 |-> CASE i = TOP -> t [] i = LEFT -> l
                                     [] i = BOTTOM -> b [] OTHER -> r]

----------------------------------------------------------------------------
(* Floats. *)

Abs(x) == IF x < 0 THEN -x ELSE x

RECURSIVE GCD(_, _)
GCD(x, y) == IF y = 0 THEN x ELSE GCD(y, x % y)

NaN == <<"nan", 0, 1>>
PInf == <<"inf", 0, 1>>
NInf == <<"ninf", 0, 1>>

\* n/d for d # 0, in lowest terms with a positive denominator
Rat(n, d) ==
    LET k == GCD(Abs(n), Abs(d))
        s == IF d < 0 THEN -1 ELSE 1
    IN  <<"rat", (s * n) \div k, (s * d) \div k>>

Zero == Rat(0, 1)

\* true division of two integer tensors' elements
FDiv(n, d) ==
    IF d # 0 THEN Rat(n, d)
    ELSE IF n = 0 THEN NaN
    ELSE IF n > 0 THEN PInf ELSE NInf

IsNaN(x) == x[1] = "nan"

\* x < y for floats that appear in an IoU matrix (quotients or NaN);
\* every comparison with NaN is false
FLess(x, y) ==
    /\ x[1] = "rat"
    /\ y[1] = "rat"
    /\ x[2] * y[3] < y[2] * x[3]

\* x >= y, false when either is NaN
FGeq(x, y) ==
    /\ x[1] = "rat"
    /\ y[1] = "rat"
    /\ x[2] * y[3] >= y[2] * x[3]

\* torch.log
FLog(x) ==
    CASE x[1] = "nan"  -> NaN
      [] x[1] = "inf"  -> PInf
      [] x[1] = "ninf" -> NaN
      [] x[1] = "rat"  -> IF x[2] < 0 THEN NaN
                          ELSE IF x[2] = 0 THEN NInf
                          ELSE IF x[2] = x[3] THEN Zero
                          ELSE <<"ln", x[2], x[3]>>

\* torch.exp, on the values a logarithm can take
FExp(x) ==
    CASE x[1] = "nan"  -> NaN
      [] x[1] = "inf"  -> PInf
      [] x[1] = "ninf" -> Zero
      [] x[1] = "ln"   -> Rat(x[2], x[3])
      [] x[1] = "rat" /\ x[2] = 0 -> Rat(1, 1)

\* -1, 0 or 1
Sign(x) ==
    CASE x[1] = "inf"  -> 1
      [] x[1] = "ninf" -> -1
      [] x[1] = "rat"  -> IF x[2] > 0 THEN 1 ELSE IF x[2] < 0 THEN -1 ELSE 0

FNeg(x) ==
    CASE x[1] = "nan"  -> NaN
      [] x[1] = "inf"  -> NInf
      [] x[1] = "ninf" -> PInf
      [] x[1] = "rat"  -> Rat(-x[2], x[3])

\* x + y
FAdd(x, y) ==
    IF IsNaN(x) \/ IsNaN(y) THEN NaN
    ELSE IF x[1] = "rat" /\ y[1] = "rat"
         THEN Rat(x[2] * y[3] + y[2] * x[3], x[3] * y[3])
    ELSE IF x[1] = "rat" THEN y
    ELSE IF y[1] = "rat" THEN x
    ELSE IF x = y THEN x ELSE NaN

\* x - y
FSub(x, y) == FAdd(x, FNeg(y))

\* x * y
FMul(x, y) ==
    IF IsNaN(x) \/ IsNaN(y) THEN NaN
    ELSE IF x[1] = "rat" /\ y[1] = "rat"
         THEN Rat(x[2] * y[2], x[3] * y[3])
    ELSE IF Sign(x) * Sign(y) = 0 THEN NaN
    ELSE IF Sign(x) * Sign(y) > 0 THEN PInf ELSE NInf

\* x / y for two floats; a zero divisor is +0.0
FQuot(x, y) ==
    IF IsNaN(x) \/ IsNaN(y) THEN NaN
    ELSE IF x[1] = "rat" /\ y[1] = "rat"
         THEN IF y[2] # 0 THEN Rat(x[2] * y[3], x[3] * y[2])
              ELSE FDiv(x[2], 0)
    ELSE IF x[1] = "rat" THEN Zero
    ELSE IF y[1] # "rat" THEN NaN
    ELSE IF Sign(x) * Sign(y) >= 0 THEN x ELSE FNeg(x)

\* a division that leaves its operand whole
half_whole(x) == x

\* x / 2.0
half(x) == FMul(x, Rat(1, 2))

----------------------------------------------------------------------------
(* Geometry. *)

\* an extent that is not clamped at zero
relu_unclamped(x) == x

relu(x) == IF x > 0 THEN x ELSE 0

bboxes_area(bbox) ==
    relu(bbox[BOTTOM] - bbox[TOP]) * relu(bbox[RIGHT] - bbox[LEFT])

maximum(x, y) == IF x >= y THEN x ELSE y
minimum(x, y) == IF x <= y THEN x ELSE y

\* an IoU over the area of the first box instead of the union
bboxes_iou_over_first(xs, ys) ==
    LET intersections == Box(maximum(xs[TOP], ys[TOP]),
                             maximum(xs[LEFT], ys[LEFT]),
                             minimum(xs[BOTTOM], ys[BOTTOM]),
                             minimum(xs[RIGHT], ys[RIGHT]))
    IN  FDiv(bboxes_area(intersections), bboxes_area(xs))

\* an IoU whose "intersection" takes the larger bottom and right
bboxes_iou_max_corner(xs, ys) ==
    LET intersections == Box(maximum(xs[TOP], ys[TOP]),
                             maximum(xs[LEFT], ys[LEFT]),
                             maximum(xs[BOTTOM], ys[BOTTOM]),
                             maximum(xs[RIGHT], ys[RIGHT]))
        xs_area == bboxes_area(xs)
        ys_area == bboxes_area(ys)
        intersections_area == bboxes_area(intersections)
    IN  FDiv(intersections_area, xs_area + ys_area - intersections_area)

\* an IoU that does not take the intersection off the sum of the areas
bboxes_iou_sum(xs, ys) ==
    LET intersections == Box(maximum(xs[TOP], ys[TOP]),
                             maximum(xs[LEFT], ys[LEFT]),
                             minimum(xs[BOTTOM], ys[BOTTOM]),
                             minimum(xs[RIGHT], ys[RIGHT]))
    IN  FDiv(bboxes_area(intersections), bboxes_area(xs) + bboxes_area(ys))

bboxes_iou(xs, ys) ==
    LET intersections == Box(maximum(xs[TOP], ys[TOP]),
                             maximum(xs[LEFT], ys[LEFT]),
                             minimum(xs[BOTTOM], ys[BOTTOM]),
                             minimum(xs[RIGHT], ys[RIGHT]))
        xs_area == bboxes_area(xs)
        ys_area == bboxes_area(ys)
        intersections_area == bboxes_area(intersections)
    IN  FDiv(intersections_area, xs_area + ys_area - intersections_area)

----------------------------------------------------------------------------
(* Encoder. *)

bboxes_to_rcnn(anchor, bbox) ==
    LET anchor_height == anchor[BOTTOM] - anchor[TOP]
        anchor_width == anchor[RIGHT] - anchor[LEFT]
        \* centres are kept doubled: 2 * centre = top + bottom
        anchor_center_y2 == anchor[TOP] + anchor[BOTTOM]
        anchor_center_x2 == anchor[LEFT] + anchor[RIGHT]
        bbox_height == bbox[BOTTOM] - bbox[TOP]
        bbox_width == bbox[RIGHT] - bbox[LEFT]
        bbox_center_y2 == bbox[TOP] + bbox[BOTTOM]
        bbox_center_x2 == bbox[LEFT] + bbox[RIGHT]
        dy == FDiv(bbox_center_y2 - anchor_center_y2, 2 * anchor_height)
        dx == FDiv(bbox_center_x2 - anchor_center_x2, 2 * anchor_width)
        dh == FLog(FDiv(bbox_height, anchor_height))
        dw == FLog(FDiv(bbox_width, anchor_width))
    IN  <<dy, dx, dh, dw>>

----------------------------------------------------------------------------
(* Encoder and decoder on tensors of N rows of floats. *)

\* an index that reads the first row for every row
Column_first(t, k) == [i \in DOMAIN t |-> t[0][k]]

\* t[..., k]
Column(t, k) == [i \in DOMAIN t |-> t[i][k]]

\* x + y, x - y, x * y, x / y on tensors of the same shape
TAdd(x, y) == [i \in DOMAIN x |-> FAdd(x[i], y[i])]
TSub(x, y) == [i \in DOMAIN x |-> FSub(x[i], y[i])]
TMul(x, y) == [i \in DOMAIN x |-> FMul(x[i], y[i])]
TQuot(x, y) == [i \in DOMAIN x |-> FQuot(x[i], y[i])]

\* x / 2.0, torch.log(x), torch.exp(x) on a tensor
THalf(x) == [i \in DOMAIN x |-> half(x[i])]
TLog(x) == [i \in DOMAIN x |-> FLog(x[i])]
TExp(x) == [i \in DOMAIN x |-> FExp(x[i])]

\* torch.stack((c0, c1, c2, c3), dim=-1)
stack(c0, c1, c2, c3) == [i \in DOMAIN c0 |-> Box(c0[i], c1[i], c2[i], c3[i])]

\* lines 38-58 on whole tensors
bboxes_to_rcnn_batch(anchors_t, bboxes_t) ==
    LET anchor_height == TSub(Column(anchors_t, BOTTOM), Column(anchors_t, TOP))
        anchor_width == TSub(Column(anchors_t, RIGHT), Column(anchors_t, LEFT))
        anchor_center_y == THalf(TAdd(Column(anchors_t, TOP), Column(anchors_t, BOTTOM)))
        anchor_center_x == THalf(TAdd(Column(anchors_t, LEFT), Column(anchors_t, RIGHT)))
        bbox_height == TSub(Column(bboxes_t, BOTTOM), Column(bboxes_t, TOP))
        bbox_width == TSub(Column(bboxes_t, RIGHT), Column(bboxes_t, LEFT))
        bbox_center_y == THalf(TAdd(Column(bboxes_t, TOP), Column(bboxes_t, BOTTOM)))
        bbox_center_x == THalf(TAdd(Column(bboxes_t, LEFT), Column(bboxes_t, RIGHT)))
        dy == TQuot(TSub(bbox_center_y, anchor_center_y), anchor_height)
        dx == TQuot(TSub(bbox_center_x, anchor_center_x), anchor_width)
        dh == TLog(TQuot(bbox_height, anchor_height))
        dw == TLog(TQuot(bbox_width, anchor_width))
    IN  stack(dy, dx, dh, dw)

\* lines 61-87 on whole tensors
bboxes_from_rcnn(anchors_t, rcnns) ==
    LET anchor_height == TSub(Column(anchors_t, BOTTOM), Column(anchors_t, TOP))
        anchor_width == TSub(Column(anchors_t, RIGHT), Column(anchors_t, LEFT))
        anchor_center_y == THalf(TAdd(Column(anchors_t, TOP), Column(anchors_t, BOTTOM)))
        anchor_center_x == THalf(TAdd(Column(anchors_t, LEFT), Column(anchors_t, RIGHT)))
        dy == Column(rcnns, 0)
        dx == Column(rcnns, 1)
        dh == Column(rcnns, 2)
        dw == Column(rcnns, 3)
        bbox_center_y == TAdd(TMul(dy, anchor_height), anchor_center_y)
        bbox_center_x == TAdd(TMul(dx, anchor_width), anchor_center_x)
        bbox_height == TMul(TExp(dh), anchor_height)
        bbox_width == TMul(TExp(dw), anchor_width)
        top == TSub(bbox_center_y, THalf(bbox_height))
        left == TSub(bbox_center_x, THalf(bbox_width))
        bottom == TAdd(bbox_center_y, THalf(bbox_height))
        right == TAdd(bbox_center_x, THalf(bbox_width))
    IN  stack(top, left, bottom, right)

----------------------------------------------------------------------------
(* Arguments of the call. *)

\* two anchors of the 2x2 grid of the repository's test, in units of 5 pixels
AnchorBoxes == {Box(0, 0, 2, 2), Box(0, 2, 2, 4)}

\* gold boxes: one covering the whole grid (IoU 1/4 with every anchor), one
\* straddling the two anchors (IoU 1/3 with both), one small box inside the
\* second anchor (IoU 1/4 with it, 0 with the first)
GoldBoxes == {Box(0, 0, 4, 4), Box(0, 1, 2, 3), Box(0, 2, 1, 3)}

Classes == 0..MaxClass

Thresholds == {Rat(0, 1), Rat(1, 4), Rat(1, 2)}

num_anchors == Cardinality(DOMAIN anchors)
num_gold == Cardinality(DOMAIN gold_bboxes)

Unallocated == [i \in {} |-> 0]

----------------------------------------------------------------------------
(* Tensor reductions. *)

\* a reduction that breaks ties towards the largest index
argmax_last(v, n) ==
    LET best(i) == IF \E k \in 0..n-1 : IsNaN(v[k])
                   THEN IsNaN(v[i])
                   ELSE \A k \in 0..n-1 : ~FLess(v[i], v[k])
    IN  CHOOSE i \in 0..n-1 : best(i) /\ \A j \in i+1..n-1 : ~best(j)

\* torch.argmax / the index of torch.max(dim=0) over v[0..n-1], n > 0:
\* the first NaN if there is one, otherwise the first maximal element
argmax(v, n) ==
    LET best(i) == IF \E k \in 0..n-1 : IsNaN(v[k])
                   THEN IsNaN(v[i])
                   ELSE \A k \in 0..n-1 : ~FLess(v[i], v[k])
    IN  CHOOSE i \in 0..n-1 : best(i) /\ \A j \in 0..i-1 : ~best(j)

iou_column(m, gi) == [i \in 0..num_anchors-1 |-> m[i, gi]]
iou_row(m, ai) == [j \in 0..num_gold-1 |-> m[ai, j]]

----------------------------------------------------------------------------
(* bboxes_training. *)

\* the objects of the caller, and an object that no tensor occupies yet
CallerStorage == [anchors |-> 1, gold_classes |-> 2, gold_bboxes |-> 3]

NoDirectCall ==
    /\ fn = "none"
    /\ args = <<>>
    /\ out = <<>>

\* the state at the entry of bboxes_training, the arguments being given
Entry ==
    /\ pc = "entry"
    /\ g = 0
    /\ a = 0
    /\ iou_matrix = Unallocated
    /\ assigned_gold = Unallocated
    /\ anchor_classes = Unallocated
    /\ anchor_bboxes = Unallocated
    /\ exception = "none"
    /\ storage = CallerStorage
    /\ visited = {}
    /\ NoDirectCall

Init ==
    /\ \E n \in 0..MaxAnchors : anchors \in [0..n-1 -> AnchorBoxes]
    /\ \E n \in 0..MaxGold :
          /\ gold_classes \in [0..n-1 -> Classes]
          /\ gold_bboxes \in [0..n-1 -> GoldBoxes]
    /\ iou_threshold \in Thresholds
    /\ Entry

\* a Pass 1 exit that goes past the loop over the anchors
Pass2Entry_skip == "materialize"

\* where control goes when the Pass 1 loop is over
Pass2Entry == IF num_anchors > 0 THEN "pass2" ELSE "materialize"

\* the size of the last dimension of a tensor of boxes (an empty tensor is
\* taken to have four columns)
trailing(t) == IF DOMAIN t = {} THEN 4 ELSE Cardinality(DOMAIN t[0])

\* an allocation that hands out the object of the anchors again
fresh_reused(st) == st.anchors

\* torch.full, torch.zeros, torch.stack: the result is a new object
fresh(st) ==
    1 + CHOOSE m \in {st[n] : n \in DOMAIN st} :
            \A n \in DOMAIN st : st[n] <= m

\* lines 98-103: the assignment array and the IoU matrix
Setup ==
    /\ pc = "entry"
    /\ assigned_gold' = [i \in 0..num_anchors-1 |-> -1]
    /\ IF trailing(anchors) <= RIGHT \/ trailing(gold_bboxes) <= RIGHT
       THEN \* bboxes_iou indexes a column that is not there (lines 27-30)
            /\ pc' = "raised"
            /\ exception' = "IndexError"
            /\ storage' = [n \in DOMAIN storage \cup {"assigned_gold"} |->
                              IF n = "assigned_gold" THEN fresh(storage)
                              ELSE storage[n]]
            /\ UNCHANGED iou_matrix
       ELSE /\ iou_matrix' = [p \in (0..num_anchors-1) \X (0..num_gold-1) |->
                                bboxes_iou(anchors[p[1]], gold_bboxes[p[2]])]
            /\ pc' = IF num_gold > 0 THEN "pass1" ELSE Pass2Entry
            /\ storage' = [n \in DOMAIN storage \cup {"assigned_gold", "iou_matrix"} |->
                              CASE n = "assigned_gold" -> fresh(storage)
                                [] n = "iou_matrix" -> fresh(storage) + 1
                                [] OTHER -> storage[n]]
            /\ UNCHANGED exception
    /\ UNCHANGED <<inputs, g, a, anchor_classes, anchor_bboxes, visited, direct>>

\* a Pass 1 body that gives a gold object every free anchor that ties for
\* its largest IoU
Pass1Update_all_ties(ag, col, gi) ==
    LET best_anchor == argmax(col, num_anchors)
    IN  [i \in DOMAIN ag |->
            IF ag[i] = -1 /\ col[i] = col[best_anchor] THEN gi ELSE ag[i]]

\* a Pass 1 body in which a later gold object takes over a taken anchor
Pass1Update_overwrite(ag, col, gi) ==
    LET best_anchor == argmax(col, num_anchors)
    IN  [ag EXCEPT ![best_anchor] = gi]

\* a Pass 1 body that sends a gold object whose best anchor is taken to the
\* best anchor that is still free
Pass1Update_redirect(ag, col, gi) ==
    LET best_anchor == argmax(col, num_anchors)
        free == {i \in 0..num_anchors-1 : ag[i] = -1}
        best_free == CHOOSE i \in free :
                        /\ \A j \in free : ~FLess(col[i], col[j])
                        /\ \A j \in free : j < i => FLess(col[j], col[i])
    IN  IF ag[best_anchor] = -1 THEN [ag EXCEPT ![best_anchor] = gi]
        ELSE IF free # {} THEN [ag EXCEPT ![best_free] = gi]
        ELSE ag

\* a Pass 1 body that applies the Pass 2 threshold to the best anchor
Pass1Update_thresholded(ag, col, gi) ==
    LET best_anchor == argmax(col, num_anchors)
    IN  IF ag[best_anchor] = -1 /\ FGeq(col[best_anchor], iou_threshold)
        THEN [ag EXCEPT ![best_anchor] = gi]
        ELSE ag

\* lines 106-108, the body of the loop over gold objects: the assignment
\* array after gold gi, whose IoU column is col, has been handled
Pass1Update(ag, col, gi) ==
    LET best_anchor == argmax(col, num_anchors)
    IN  IF ag[best_anchor] = -1
        THEN [ag EXCEPT ![best_anchor] = gi]
        ELSE ag

\* lines 105-108: one iteration of the loop over gold objects
Pass1Step ==
    /\ pc = "pass1"
    /\ IF num_anchors = 0
       THEN \* torch.argmax of an empty tensor
            /\ pc' = "raised"
            /\ exception' = "IndexError"
            /\ UNCHANGED <<g, assigned_gold>>
       ELSE /\ assigned_gold' =
                  Pass1Update(assigned_gold, iou_column(iou_matrix, g), g)
            /\ g' = g + 1
            /\ pc' = IF g + 1 < num_gold THEN "pass1" ELSE Pass2Entry
            /\ UNCHANGED exception
    /\ UNCHANGED <<inputs, a, iou_matrix, anchor_classes, anchor_bboxes,
                   storage, visited, direct>>

\* a Pass 2 body that compares with > instead of >=
Pass2Update_strict(ag, row, ai) ==
    IF ag[ai] = -1
    THEN LET best_gold == argmax(row, num_gold)
             best_iou == row[best_gold]
         IN  IF FLess(iou_threshold, best_iou)
             THEN [ag EXCEPT ![ai] = best_gold]
             ELSE ag
    ELSE ag

\* a Pass 2 body that takes the first gold object reaching the threshold
\* instead of the one with the largest IoU
Pass2Update_first_fit(ag, row, ai) ==
    LET fit == {k \in 0..num_gold-1 : FGeq(row[k], iou_threshold)}
    IN  IF ag[ai] = -1 /\ fit # {}
        THEN [ag EXCEPT ![ai] = CHOOSE k \in fit : \A j \in fit : k <= j]
        ELSE ag

\* a Pass 2 body that does not skip the anchors assigned in Pass 1
Pass2Update_override(ag, row, ai) ==
    LET best_gold == argmax(row, num_gold)
        best_iou == row[best_gold]
    IN  IF FGeq(best_iou, iou_threshold)
        THEN [ag EXCEPT ![ai] = best_gold]
        ELSE ag

\* a Pass 2 body that leaves an anchor free when another anchor already
\* holds its best gold object
Pass2Update_exclusive(ag, row, ai) ==
    IF ag[ai] = -1
    THEN LET best_gold == argmax(row, num_gold)
             best_iou == row[best_gold]
         IN  IF FGeq(best_iou, iou_threshold)
                /\ \A j \in DOMAIN ag : ag[j] # best_gold
             THEN [ag EXCEPT ![ai] = best_gold]
             ELSE ag
    ELSE ag

\* lines 115-118, the body of the loop over anchors when there is a gold
\* object: the assignment array after anchor ai, whose IoU row is row, has
\* been handled
Pass2Update(ag, row, ai) ==
    IF ag[ai] = -1
    THEN LET best_gold == argmax(row, num_gold)
             best_iou == row[best_gold]
         IN  IF FGeq(best_iou, iou_threshold)
             THEN [ag EXCEPT ![ai] = best_gold]
             ELSE ag
    ELSE ag

\* lines 114-118: one iteration of the loop over anchors
Pass2Step ==
    /\ pc = "pass2"
    /\ IF assigned_gold[a] = -1 /\ num_gold = 0
       THEN \* torch.max over a dimension of size zero
            /\ pc' = "raised"
            /\ exception' = "IndexError"
            /\ UNCHANGED <<a, assigned_gold, visited>>
       ELSE /\ assigned_gold' =
                  Pass2Update(assigned_gold, iou_row(iou_matrix, a), a)
            /\ a' = a + 1
            /\ visited' = visited \cup {a}
            /\ pc' = IF a + 1 < num_anchors THEN "pass2" ELSE "materialize"
            /\ UNCHANGED exception
    /\ UNCHANGED <<inputs, g, iou_matrix, anchor_classes, anchor_bboxes,
                   storage, direct>>

ZeroBox == <<Zero, Zero, Zero, Zero>>

\* a class target without the shift that reserves 0 for the background
class_target_unshifted(ag, i) ==
    IF ag[i] # -1 THEN gold_classes[ag[i]] ELSE 0

\* lines 120-125: the class target of anchor i
class_target(ag, i) ==
    IF ag[i] # -1 THEN 1 + gold_classes[ag[i]] ELSE 0

\* lines 120-126: the regression target of anchor i
bbox_target(ag, i) ==
    IF ag[i] # -1
    THEN bboxes_to_rcnn(anchors[i], gold_bboxes[ag[i]])
    ELSE ZeroBox

\* lines 120-128: the two result tensors
Materialize ==
    /\ pc = "materialize"
    /\ anchor_classes' =
          [i \in 0..num_anchors-1 |-> class_target(assigned_gold, i)]
    /\ anchor_bboxes' =
          [i \in 0..num_anchors-1 |-> bbox_target(assigned_gold, i)]
    /\ storage' = [n \in DOMAIN storage \cup {"anchor_classes", "anchor_bboxes"} |->
                      CASE n = "anchor_classes" -> fresh(storage)
                        [] n = "anchor_bboxes" -> fresh(storage) + 1
                        [] OTHER -> storage[n]]
    /\ pc' = "done"
    /\ UNCHANGED <<inputs, g, a, iou_matrix, assigned_gold, exception,
                   visited, direct>>

Next == Setup \/ Pass1Step \/ Pass2Step \/ Materialize

Spec == Init /\ [][Next]_vars

----------------------------------------------------------------------------
(* bboxes_training on boxes outside the caller contract. *)

\* a zero-area anchor, and the zero box with which custom_collate of
\* svhn_competition-og.py pads the gold boxes
DegenerateAnchors == {Box(2, 2, 2, 2)}
DegenerateGolds == {Box(0, 0, 0, 0)}

InitDegenerate ==
    /\ \E n \in 0..MaxAnchors :
          anchors \in [0..n-1 -> AnchorBoxes \cup DegenerateAnchors]
    /\ \E n \in 0..MaxGold :
          /\ gold_classes \in [0..n-1 -> Classes]
          /\ gold_bboxes \in [0..n-1 -> GoldBoxes \cup DegenerateGolds]
    /\ iou_threshold \in Thresholds
    /\ Entry

SpecDegenerate == InitDegenerate /\ [][Next]_vars

\* the sizes of the last dimension that the caller may pass
Widths == {3, 4, 5}

\* a box cut to, or padded with zeros to, w columns
Resize(box, w) == [i \in 0..w-1 |-> IF i \in DOMAIN box THEN box[i] ELSE 0]

InitShapes ==
    /\ \E n \in 1..MaxAnchors : \E w \in Widths :
          anchors \in [0..n-1 -> {Resize(b, w) : b \in AnchorBoxes}]
    /\ \E n \in 1..MaxGold : \E w \in Widths :
          /\ gold_classes \in [0..n-1 -> Classes]
          /\ gold_bboxes \in [0..n-1 -> {Resize(b, w) : b \in GoldBoxes}]
    /\ iou_threshold \in Thresholds
    /\ Entry

SpecShapes == InitShapes /\ [][Next]_vars

----------------------------------------------------------------------------
(* bboxes_training with a gold object that no anchor covers. *)

\* a gold box in the lower half of the 2x2 grid, where neither anchor lies
UncoveredGolds == {Box(2, 0, 4, 2)}

\* gold i has class i modulo the number of classes
InitUncovered ==
    /\ \E n \in 0..MaxAnchors : anchors \in [0..n-1 -> AnchorBoxes]
    /\ \E n \in 0..MaxGold :
          /\ gold_classes = [i \in 0..n-1 |-> i % (MaxClass + 1)]
          /\ gold_bboxes \in [0..n-1 -> GoldBoxes \cup UncoveredGolds]
    /\ iou_threshold \in Thresholds
    /\ Entry

SpecUncovered == InitUncovered /\ [][Next]_vars

----------------------------------------------------------------------------
(* The loops of bboxes_training: executed to the end, and with the      *)
(* iterations of the Pass 2 loop in any order.                           *)

\* arguments for the properties of the two loops, in which the classes play
\* no part: every gold has class 0
InitLoops ==
    /\ \E n \in 0..OrderAnchors : anchors \in [0..n-1 -> AnchorBoxes]
    /\ \E n \in 0..MaxGold :
          /\ gold_classes = [i \in 0..n-1 |-> 0]
          /\ gold_bboxes \in [0..n-1 -> GoldBoxes]
    /\ iou_threshold \in Thresholds
    /\ Entry

\* the interpreter always executes the next statement of a call in progress
FairSpec == InitLoops /\ [][Next]_vars /\ WF_vars(Next)

\* lines 115-118 for an anchor that has not had its iteration yet, whatever
\* its index; a counts the iterations done
Pass2StepAnyOrder ==
    /\ pc = "pass2"
    /\ \E ai \in (0..num_anchors-1) \ visited :
          IF assigned_gold[ai] = -1 /\ num_gold = 0
          THEN \* torch.max over a dimension of size zero
               /\ pc' = "raised"
               /\ exception' = "IndexError"
               /\ UNCHANGED <<a, assigned_gold, visited>>
          ELSE /\ assigned_gold' =
                     Pass2Update(assigned_gold, iou_row(iou_matrix, ai), ai)
               /\ a' = a + 1
               /\ visited' = visited \cup {ai}
               /\ pc' = IF a + 1 < num_anchors THEN "pass2" ELSE "materialize"
               /\ UNCHANGED exception
    /\ UNCHANGED <<inputs, g, iou_matrix, anchor_classes, anchor_bboxes,
                   storage, direct>>

NextAnyOrder == Setup \/ Pass1Step \/ Pass2StepAnyOrder \/ Materialize

SpecAnyOrder == InitLoops /\ [][NextAnyOrder]_vars

\* a second call with the anchors and gold objects of a call that has
\* returned and a threshold of its own; the first call's threshold and
\* results are kept in args and out
Rerun ==
    /\ pc = "done"
    /\ fn = "none"
    /\ fn' = "bboxes_training"
    /\ args' = [iou_threshold |-> iou_threshold]
    /\ out' = [assigned_gold |-> assigned_gold,
               anchor_classes |-> anchor_classes,
               anchor_bboxes |-> anchor_bboxes]
    /\ iou_threshold' \in Thresholds
    /\ pc' = "entry"
    /\ g' = 0
    /\ a' = 0
    /\ iou_matrix' = Unallocated
    /\ assigned_gold' = Unallocated
    /\ anchor_classes' = Unallocated
    /\ anchor_bboxes' = Unallocated
    /\ storage' = CallerStorage
    /\ visited' = {}
    /\ UNCHANGED <<anchors, gold_classes, gold_bboxes, exception>>

NextRerun == Setup \/ Pass1Step \/ Pass2Step \/ Materialize \/ Rerun

SpecRerun == InitLoops /\ [][NextRerun]_vars

\* lines 105-108: the loop over the gold objects gi, gi+1, ...
RECURSIVE Pass1Loop(_, _)
Pass1Loop(ag, gi) ==
    IF gi >= num_gold THEN ag
    ELSE Pass1Loop(Pass1Update(ag, iou_column(iou_matrix, gi), gi), gi + 1)

\* lines 114-118: the loop over the anchors ai, ai+1, ... in ascending order
RECURSIVE Pass2Loop(_, _)
Pass2Loop(ag, ai) ==
    IF ai >= num_anchors THEN ag
    ELSE Pass2Loop(Pass2Update(ag, iou_row(iou_matrix, ai), ai), ai + 1)

----------------------------------------------------------------------------
(* Direct calls of the geometry functions. *)

\* no call of bboxes_training is in progress
NoTraining ==
    /\ anchors = Unallocated
    /\ gold_classes = Unallocated
    /\ gold_bboxes = Unallocated
    /\ iou_threshold = Zero
    /\ pc = "idle"
    /\ g = 0
    /\ a = 0
    /\ iou_matrix = Unallocated
    /\ assigned_gold = Unallocated
    /\ anchor_classes = Unallocated
    /\ anchor_bboxes = Unallocated
    /\ exception = "none"
    /\ storage = Unallocated
    /\ visited = {}

training == <<anchors, gold_classes, gold_bboxes, iou_threshold,
              pc, g, a, iou_matrix, assigned_gold,
              anchor_classes, anchor_bboxes, exception, storage, visited>>

\* every box with coordinates in 0..GeomMaxCoord, well-formed or not
GeomBoxes ==
    {Box(t, l, b, r) : t \in 0..GeomMaxCoord, l \in 0..GeomMaxCoord,
                       b \in 0..GeomMaxCoord, r \in 0..GeomMaxCoord}

InitGeometry ==
    /\ NoTraining
    /\ fn = "none"
    /\ args \in GeomBoxes \X GeomBoxes
    /\ out = <<>>

\* bboxes_area(xs)
ApplyArea ==
    /\ fn = "none"
    /\ fn' = "bboxes_area"
    /\ out' = bboxes_area(args[1])
    /\ UNCHANGED <<training, args>>

\* bboxes_iou(xs, ys)
ApplyIou ==
    /\ fn = "none"
    /\ fn' = "bboxes_iou"
    /\ out' = bboxes_iou(args[1], args[2])
    /\ UNCHANGED <<training, args>>

NextGeometry == ApplyArea \/ ApplyIou

SpecGeometry == InitGeometry /\ [][NextGeometry]_vars

----------------------------------------------------------------------------
(* Direct calls of the encoder and of the decoder on its output. *)

\* torch.tensor(box, dtype=torch.float32)
FloatBox(box) == [k \in DOMAIN box |-> Rat(box[k], 1)]

\* anchors: two of positive size, one of height 0, one of negative height
CodecAnchors ==
    {FloatBox(Box(0, 0, 2, 2)), FloatBox(Box(1, 3, 3, 7)),
     FloatBox(Box(1, 0, 1, 2)), FloatBox(Box(2, 0, 0, 2))}

\* boxes: two of positive size, one of size 0, one of negative height
CodecBoxes ==
    {FloatBox(Box(0, 0, 4, 6)), FloatBox(Box(1, 1, 2, 4)),
     FloatBox(Box(1, 1, 1, 1)), FloatBox(Box(3, 1, 1, 2))}

InitCodec ==
    /\ NoTraining
    /\ fn = "none"
    /\ \E n \in 1..CodecMaxRows :
          \E as \in [0..(n - 1) -> CodecAnchors], bs \in [0..(n - 1) -> CodecBoxes] :
              args = [anchors |-> as, bboxes |-> bs, rcnns |-> <<>>]
    /\ out = <<>>

\* bboxes_to_rcnn(anchors, bboxes)
ApplyToRcnn ==
    /\ fn = "none"
    /\ fn' = "bboxes_to_rcnn"
    /\ out' = bboxes_to_rcnn_batch(args.anchors, args.bboxes)
    /\ args' = [args EXCEPT !.rcnns = out']
    /\ UNCHANGED training

\* bboxes_from_rcnn(anchors, rcnns), with the rcnns of the encoder
ApplyFromRcnn ==
    /\ fn = "bboxes_to_rcnn"
    /\ fn' = "bboxes_from_rcnn"
    /\ out' = bboxes_from_rcnn(args.anchors, args.rcnns)
    /\ UNCHANGED <<training, args>>

NextCodec == ApplyToRcnn \/ ApplyFromRcnn

SpecCodec == InitCodec /\ [][NextCodec]_vars

----------------------------------------------------------------------------
(* The training caller of svhn_competition-og.py: custom_collate pads the *)
(* gold objects of the images of a batch, compute_loss takes the padding  *)
(* off again.  A tensor of an image is a sequence here, indexed from 1.   *)

\* the gold objects an image can have: a digit and its box
CollateObjects ==
    {[class |-> 0, bbox |-> Box(0, 0, 4, 4)],
     [class |-> 1, bbox |-> Box(0, 1, 2, 3)]}

\* an item of a batch, (cls, bboxes), of the objects objs
Item(objs) ==
    [cls |-> [i \in 1..Len(objs) |-> objs[i].class],
     bboxes |-> [i \in 1..Len(objs) |-> objs[i].bbox]]

\* torch.full((n,), v) and torch.zeros((n, 4))
full(n, v) == [i \in 1..n |-> v]
zeros4(n) == [i \in 1..n |-> Box(0, 0, 0, 0)]

\* max(lengths)
max_len(batch) ==
    CHOOSE m \in {Len(batch[i].cls) : i \in DOMAIN batch} :
        \A i \in DOMAIN batch : Len(batch[i].cls) <= m

\* lines 89-106 without the images: the padded classes and boxes
custom_collate(batch) ==
    LET padded(item) ==
            LET num == Len(item.cls)
            IN  IF num < max_len(batch)
                THEN [cls |-> item.cls \o full(max_len(batch) - num, -1),
                      bboxes |-> item.bboxes \o zeros4(max_len(batch) - num)]
                ELSE item
    IN  [padded_classes |-> [i \in DOMAIN batch |-> padded(batch[i]).cls],
         padded_bboxes |-> [i \in DOMAIN batch |-> padded(batch[i]).bboxes]]

\* a mask that keeps the positive classes only
valid_positive(classes) == [i \in DOMAIN classes |-> classes[i] > 0]

\* line 162: padded_classes[i] != -1
valid(classes) == [i \in DOMAIN classes |-> classes[i] # -1]

\* t[mask] for a boolean mask over the first dimension
masked(t, mask) ==
    LET kept == SelectSeq([i \in 1..Len(t) |-> i], LAMBDA i : mask[i])
    IN  [k \in 1..Len(kept) |-> t[kept[k]]]

\* lines 161-164: the gold objects of image i that go to bboxes_training
compute_loss_gold(y, i) ==
    [gold_classes |-> masked(y.padded_classes[i], valid(y.padded_classes[i])),
     gold_bboxes |-> masked(y.padded_bboxes[i], valid(y.padded_classes[i]))]

InitCollate ==
    /\ NoTraining
    /\ fn = "none"
    /\ \E b \in 1..CollateMaxBatch :
          \E lists \in [1..b -> UNION {[1..n -> CollateObjects] : n \in 0..CollateMaxLen}] :
              args = [i \in 1..b |-> Item(lists[i])]
    /\ out = <<>>

\* custom_collate(batch)
ApplyCollate ==
    /\ fn = "none"
    /\ fn' = "custom_collate"
    /\ out' = custom_collate(args)
    /\ UNCHANGED <<training, args>>

\* the loop of compute_loss up to the calls of bboxes_training
ApplyFilter ==
    /\ fn = "custom_collate"
    /\ fn' = "compute_loss"
    /\ out' = [i \in DOMAIN args |-> compute_loss_gold(out, i)]
    /\ UNCHANGED <<training, args>>

NextCollate == ApplyCollate \/ ApplyFilter

SpecCollate == InitCollate /\ [][NextCollate]_vars

----------------------------------------------------------------------------
(* Vocabulary of the properties. *)

Anchors == 0..num_anchors-1
Golds == 0..num_gold-1

\* the IoU of anchor i and gold k, as the assigner holds it after line 103
IoU(i, k) == iou_matrix[i, k]

\* anchor i has the largest IoU against gold k, and no anchor of smaller
\* index has an IoU as large
IsBestAnchor(i, k) ==
    \A j \in Anchors :
        /\ j < i => FLess(IoU(j, k), IoU(i, k))
        /\ j > i => FGeq(IoU(i, k), IoU(j, k))

\* gold k has the largest IoU against anchor i, and no gold of smaller
\* index has an IoU as large
IsBestGold(k, i) ==
    \A j \in Golds :
        /\ j < k => FLess(IoU(i, j), IoU(i, k))
        /\ j > k => FGeq(IoU(i, k), IoU(i, j))

\* the best anchor of gold k is also the best anchor of an earlier gold
Contested(k) ==
    \E j \in 0..k-1 : \E i \in Anchors :
        IsBestAnchor(i, j) /\ IsBestAnchor(i, k)

\* anchor i is the best anchor of some gold, so Pass 1 assigns it
Pass1Anchor(i) == \E k \in Golds : IsBestAnchor(i, k)

\* the state between the two passes
Pass1Finished == pc = "pass2" /\ a = 0

----------------------------------------------------------------------------
(* C1: Pass 1 handles the gold objects in ascending index order; the      *)
(* candidate of gold k is its maximum-IoU anchor of smallest index, and   *)
(* the candidate is assigned to k exactly when no earlier gold holds it.  *)
(* With golds 0..g-1 handled: a handled gold holds its candidate iff no   *)
(* earlier gold does, and an anchor holds only a handled gold whose       *)
(* candidate it is.                                                        *)
C1_Pass1Rule ==
    (pc = "pass1" \/ Pass1Finished) =>
        /\ g \in 0..num_gold
        /\ Pass1Finished => g = num_gold
        /\ \A k \in 0..g-1 : \A i \in Anchors :
              IsBestAnchor(i, k) =>
                  ((assigned_gold[i] = k) <=>
                      (\A j \in 0..k-1 : assigned_gold[i] # j))
        /\ \A i \in Anchors :
              assigned_gold[i] # -1 =>
                  /\ assigned_gold[i] \in 0..g-1
                  /\ IsBestAnchor(i, assigned_gold[i])

\* Pass 1 is over for two golds with the same candidate, the later of which
\* ties between two anchors
C1_Witness ==
    /\ Pass1Finished
    /\ num_gold = 2
    /\ \E i \in Anchors :
          /\ IsBestAnchor(i, 0)
          /\ IsBestAnchor(i, 1)
          /\ assigned_gold[i] = 0
          /\ \E j \in Anchors : j # i /\ IoU(j, 1) = IoU(i, 1)

(* C2: an anchor that Pass 1 left unassigned is, in the result, either    *)
(* background or assigned to its maximum-IoU gold of smallest index.      *)
C2_Pass2Rule ==
    pc = "done" =>
        \A i \in Anchors :
            ~Pass1Anchor(i) =>
                \/ assigned_gold[i] = -1 /\ anchor_classes[i] = 0
                \/ /\ assigned_gold[i] \in Golds
                   /\ IsBestGold(assigned_gold[i], i)
                   /\ anchor_classes[i] = 1 + gold_classes[assigned_gold[i]]

\* an anchor assigned in Pass 2 to the first of two golds of equal IoU, and
\* another anchor that stayed background
C2_Witness ==
    /\ pc = "done"
    /\ num_gold = 2
    /\ \E i \in Anchors :
          /\ ~Pass1Anchor(i)
          /\ assigned_gold[i] = 0
          /\ IoU(i, 0) = IoU(i, 1)
          /\ gold_classes[0] # gold_classes[1]

(* C3: the Pass 2 comparison is a literal >=: an anchor that Pass 1 left  *)
(* unassigned is non-background iff its largest IoU over the gold objects *)
(* is greater than or equal to iou_threshold.                             *)
C3_LiteralGeq ==
    pc = "done" =>
        \A i \in Anchors :
            ~Pass1Anchor(i) =>
                ((anchor_classes[i] # 0) <=>
                    (\E k \in Golds : FGeq(IoU(i, k), iou_threshold)))

\* an anchor assigned in Pass 2 whose largest IoU equals a positive threshold
C3_Witness ==
    /\ pc = "done"
    /\ iou_threshold # Zero
    /\ \E i \in Anchors :
          /\ ~Pass1Anchor(i)
          /\ anchor_classes[i] # 0
          /\ \A k \in Golds : FGeq(iou_threshold, IoU(i, k))
          /\ \E k \in Golds : IoU(i, k) = iou_threshold

(* C4: in the result every anchor assigned to gold k has class            *)
(* 1 + gold_classes[k] and regression bboxes_to_rcnn(anchor, gold box),   *)
(* and every unassigned anchor has class 0 and regression (0,0,0,0).      *)
C4_Materialization ==
    pc = "done" =>
        /\ DOMAIN anchor_classes = Anchors
        /\ DOMAIN anchor_bboxes = Anchors
        /\ \A i \in Anchors :
              IF assigned_gold[i] \in Golds
              THEN /\ anchor_classes[i] = 1 + gold_classes[assigned_gold[i]]
                   /\ anchor_bboxes[i] =
                         bboxes_to_rcnn(anchors[i], gold_bboxes[assigned_gold[i]])
              ELSE /\ anchor_classes[i] = 0
                   /\ anchor_bboxes[i] = <<Rat(0, 1), Rat(0, 1), Rat(0, 1), Rat(0, 1)>>

\* the second scenario of the repository's test: the gold box over the whole
\* grid, class 1, on the first anchor gives (.5, .5, log 2, log 2) and class 2,
\* and the other anchor is background
C4_Witness ==
    /\ pc = "done"
    /\ num_anchors = 2
    /\ anchors[0] = Box(0, 0, 2, 2)
    /\ num_gold = 1
    /\ gold_bboxes[0] = Box(0, 0, 4, 4)
    /\ gold_classes[0] = 1
    /\ anchor_classes = [i \in 0..1 |-> IF i = 0 THEN 2 ELSE 0]
    /\ anchor_bboxes[0] = <<Rat(1, 2), Rat(1, 2), <<"ln", 2, 1>>, <<"ln", 2, 1>>>>
    /\ anchor_bboxes[1] = <<Rat(0, 1), Rat(0, 1), Rat(0, 1), Rat(0, 1)>>

(* C5: with no gold object the call returns normally, for any anchor set  *)
(* and threshold, with all classes 0 and all regressions zero.            *)
C5_NoGoldReturns ==
    num_gold = 0 =>
        /\ pc # "raised"
        /\ pc = "done" =>
              \A i \in Anchors :
                  /\ anchor_classes[i] = 0
                  /\ anchor_bboxes[i] = <<Rat(0, 1), Rat(0, 1), Rat(0, 1), Rat(0, 1)>>

(* C6: when two gold objects have the same maximum-IoU anchor, the one of *)
(* smallest index holds that anchor after Pass 1 and a later one holds no *)
(* anchor at all after Pass 1; in the result the later gold is only on    *)
(* anchors that Pass 1 left free and that select it in Pass 2.            *)
C6_ContestedAnchor ==
    /\ ((pc = "pass1" /\ g > 0) \/ Pass1Finished) =>
          \A k \in 0..g-1 :
              Contested(k) =>
                  /\ \A i \in Anchors : assigned_gold[i] # k
                  /\ \A i \in Anchors :
                        IsBestAnchor(i, k) =>
                            /\ assigned_gold[i] \in 0..k-1
                            /\ IsBestAnchor(i, assigned_gold[i])
                            /\ \A j \in 0..assigned_gold[i]-1 : ~IsBestAnchor(i, j)
    /\ pc = "done" =>
          \A k \in Golds :
              Contested(k) =>
                  \A i \in Anchors :
                      assigned_gold[i] = k =>
                          /\ ~Pass1Anchor(i)
                          /\ IsBestGold(k, i)
                          /\ FGeq(IoU(i, k), iou_threshold)
                          /\ anchor_classes[i] = 1 + gold_classes[k]

\* the later of two golds with the same best anchor lost it in Pass 1 and is
\* in the result on another anchor, which chose it in Pass 2
C6_Witness ==
    /\ pc = "done"
    /\ num_gold = 2
    /\ Contested(1)
    /\ \E i \in Anchors : IsBestAnchor(i, 1) /\ assigned_gold[i] = 0
    /\ \E i \in Anchors : ~IsBestAnchor(i, 1) /\ assigned_gold[i] = 1

(* C7, as stated: when two gold objects have the same maximum-IoU anchor  *)
(* the later one is still assigned, in the same Pass 1 sweep, to its best *)
(* anchor among those that were free when it was handled.                 *)
C7_BestFreeAnchor ==
    Pass1Finished =>
        \A k \in Golds :
            Contested(k) =>
                LET free == {i \in Anchors :
                                assigned_gold[i] = -1 \/ assigned_gold[i] >= k}
                IN  free # {} =>
                        \E i \in free :
                            /\ assigned_gold[i] = k
                            /\ \A j \in free : FGeq(IoU(i, k), IoU(j, k))

(* C7, amended: when two gold objects have the same maximum-IoU anchor    *)
(* the earliest one keeps that anchor, and the Pass 1 iteration of a      *)
(* later one assigns nothing: the later gold is not sent to a free anchor.*)
C7_NoRedirect ==
    [][(pc = "pass1" /\ num_anchors > 0 /\ Contested(g)) =>
            /\ assigned_gold' = assigned_gold
            /\ \A i \in Anchors :
                  IsBestAnchor(i, g) =>
                      /\ assigned_gold'[i] \in 0..g-1
                      /\ IsBestAnchor(i, assigned_gold'[i])
                      /\ \A j \in 0..assigned_gold'[i]-1 : ~IsBestAnchor(i, j)
      ]_vars

\* Pass 1 is over, the later of two golds with the same best anchor holds
\* nothing, and an anchor that overlaps it is still free
C7_Witness ==
    /\ Pass1Finished
    /\ num_gold = 2
    /\ Contested(1)
    /\ \A i \in Anchors : assigned_gold[i] # 1
    /\ \E i \in Anchors : assigned_gold[i] = -1 /\ IoU(i, 1) # Rat(0, 1)

(* C8, as stated: in the result on a non-empty anchor set every gold      *)
(* object has an anchor assigned to it, with class 1 + gold_classes[k],   *)
(* for every threshold.                                                    *)
C8_EveryGoldHasAnchor ==
    (pc = "done" /\ num_anchors > 0) =>
        \A k \in Golds :
            \E i \in Anchors :
                /\ assigned_gold[i] = k
                /\ anchor_classes[i] = 1 + gold_classes[k]

(* C8, amended: in the result on a non-empty anchor set every gold object *)
(* whose maximum-IoU anchor is not the maximum-IoU anchor of an earlier   *)
(* gold object has that anchor assigned to it, with class                 *)
(* 1 + gold_classes[k], for every threshold.                              *)
C8_UncontestedGoldHasAnchor ==
    (pc = "done" /\ num_anchors > 0) =>
        \A k \in Golds :
            ~Contested(k) =>
                \E i \in Anchors :
                    /\ IsBestAnchor(i, k)
                    /\ assigned_gold[i] = k
                    /\ anchor_classes[i] = 1 + gold_classes[k]

\* a result in which the first gold has its anchor although a later gold has
\* a larger IoU with it, and that later gold has no anchor
C8_Witness ==
    /\ pc = "done"
    /\ num_gold = 2
    /\ Contested(1)
    /\ \E i \in Anchors :
          /\ assigned_gold[i] = 0
          /\ FLess(IoU(i, 0), IoU(i, 1))
          /\ FGeq(IoU(i, 1), iou_threshold)
    /\ \A i \in Anchors : assigned_gold[i] # 1

(* C9: a Pass 1 assignment does not depend on iou_threshold: the anchor   *)
(* chosen for a gold object in Pass 1 has that gold's class and           *)
(* regression target in the result even when their IoU is below the       *)
(* threshold, and an anchor that Pass 1 did not choose and whose IoU with *)
(* every gold is below the threshold is background with zero regression.  *)
C9_Pass1IgnoresThreshold ==
    pc = "done" =>
        /\ \A k \in Golds : \A i \in Anchors :
              (IsBestAnchor(i, k) /\ ~Contested(k)
                  /\ FLess(IoU(i, k), iou_threshold)) =>
                  /\ anchor_classes[i] = 1 + gold_classes[k]
                  /\ anchor_bboxes[i] = bboxes_to_rcnn(anchors[i], gold_bboxes[k])
        /\ \A i \in Anchors :
              (~Pass1Anchor(i)
                  /\ \A k \in Golds : FLess(IoU(i, k), iou_threshold)) =>
                  /\ anchor_classes[i] = 0
                  /\ anchor_bboxes[i] = <<Rat(0, 1), Rat(0, 1), Rat(0, 1), Rat(0, 1)>>

\* as in the first scenario of the repository's test, one small gold box inside the
\* second anchor, IoU below the threshold; that anchor is assigned and the
\* other is background
C9_Witness ==
    /\ pc = "done"
    /\ num_gold = 1
    /\ gold_bboxes[0] = Box(0, 2, 1, 3)
    /\ num_anchors = 2
    /\ anchors[0] = Box(0, 0, 2, 2)
    /\ anchors[1] = Box(0, 2, 2, 4)
    /\ FLess(IoU(1, 0), iou_threshold)
    /\ anchor_classes = [i \in 0..1 |-> IF i = 1 THEN 1 + gold_classes[0] ELSE 0]
    /\ anchor_bboxes[0] = <<Rat(0, 1), Rat(0, 1), Rat(0, 1), Rat(0, 1)>>
    /\ anchor_bboxes[1] = <<Rat(-1, 4), Rat(-1, 4), <<"ln", 1, 2>>, <<"ln", 1, 2>>>>

(* C10: with a single gold object whose IoU against every anchor is the   *)
(* same value v, a threshold above v leaves exactly anchor 0              *)
(* non-background, and a threshold at or below v makes every anchor       *)
(* non-background with that gold's class.                                  *)
C10_ForcedOnePerGold ==
    (pc = "done" /\ num_gold = 1
        /\ \A i \in Anchors : IoU(i, 0) = IoU(0, 0)) =>
        IF FLess(IoU(0, 0), iou_threshold)
        THEN /\ anchor_classes[0] = 1 + gold_classes[0]
             /\ \A i \in Anchors : i # 0 => anchor_classes[i] = 0
        ELSE \A i \in Anchors : anchor_classes[i] = 1 + gold_classes[0]

\* the gold box over the whole grid on two different anchors with a threshold
\* above their common IoU of 1/4: only anchor 0 is assigned
C10_Witness ==
    /\ pc = "done"
    /\ num_gold = 1
    /\ num_anchors = 2
    /\ anchors[0] # anchors[1]
    /\ IoU(0, 0) = Rat(1, 4)
    /\ IoU(1, 0) = Rat(1, 4)
    /\ iou_threshold = Rat(1, 2)
    /\ anchor_classes[0] # 0
    /\ anchor_classes[1] = 0

\* row i of a tensor, as a tensor of one row
Row(t, i) == [j \in {0} |-> t[i]]

PositiveSize(box) ==
    /\ FLess(box[TOP], box[BOTTOM])
    /\ FLess(box[LEFT], box[RIGHT])

(* C11: for every anchor a of strictly positive height and width and      *)
(* every box b of strictly positive height and width,                     *)
(* bboxes_from_rcnn(a, bboxes_to_rcnn(a, b)) is b.                        *)
C11_RoundTrip ==
    fn = "bboxes_from_rcnn" =>
        \A i \in DOMAIN args.anchors :
            (PositiveSize(args.anchors[i]) /\ PositiveSize(args.bboxes[i])) =>
                out[i] = args.bboxes[i]

\* a round trip through offsets none of which is 0
C11_Witness ==
    /\ fn = "bboxes_from_rcnn"
    /\ \E i \in DOMAIN args.anchors :
          /\ PositiveSize(args.anchors[i])
          /\ PositiveSize(args.bboxes[i])
          /\ \A k \in 0..1 : args.rcnns[i][k] # Zero
          /\ \A k \in 2..3 : args.rcnns[i][k][1] = "ln"
          /\ out[i] = args.bboxes[i]

\* the comparison == of two floats: a NaN is equal to nothing
FEq(x, y) == ~IsNaN(x) /\ ~IsNaN(y) /\ x = y

WellFormed(box) == box[TOP] <= box[BOTTOM] /\ box[LEFT] <= box[RIGHT]

(* C12, as stated: bboxes_iou(a, b) equals bboxes_iou(b, a) for all pairs *)
(* of boxes a and b.                                                       *)
C12_IouSymmetric ==
    fn = "bboxes_iou" => FEq(out, bboxes_iou(args[2], args[1]))

(* C12, amended: bboxes_iou(a, b) equals bboxes_iou(b, a) for all pairs   *)
(* of boxes of which at least one has positive area; for two boxes of     *)
(* zero area both orders give NaN.                                         *)
C12_IouSymmetricOrNaN ==
    fn = "bboxes_iou" =>
        IF bboxes_area(args[1]) > 0 \/ bboxes_area(args[2]) > 0
        THEN FEq(out, bboxes_iou(args[2], args[1]))
        ELSE IsNaN(out) /\ IsNaN(bboxes_iou(args[2], args[1]))

\* the IoU of two different boxes of different areas that overlap in part
C12_Witness ==
    /\ fn = "bboxes_iou"
    /\ bboxes_area(args[1]) > bboxes_area(args[2])
    /\ bboxes_area(args[2]) > 0
    /\ out # Rat(0, 1)
    /\ out # FDiv(bboxes_area(args[2]), bboxes_area(args[1]))

(* C13: for well-formed boxes a and b of positive area bboxes_iou(a, b)  *)
(* is a number with 0 <= IoU <= 1: the denominator is positive and the    *)
(* intersection area does not exceed it.                                   *)
C13_IouBounds ==
    (fn = "bboxes_iou"
        /\ WellFormed(args[1]) /\ bboxes_area(args[1]) > 0
        /\ WellFormed(args[2]) /\ bboxes_area(args[2]) > 0) =>
        /\ out[1] = "rat"
        /\ FGeq(out, Rat(0, 1))
        /\ FGeq(Rat(1, 1), out)

\* two positive-area boxes that overlap in part: an IoU strictly between 0
\* and 1
C13_Witness ==
    /\ fn = "bboxes_iou"
    /\ bboxes_area(args[1]) > 0
    /\ bboxes_area(args[2]) > 0
    /\ FLess(Rat(0, 1), out)
    /\ FLess(out, Rat(1, 1))

(* C14: bboxes_iou(a, a) is exactly 1 for every box a of positive area.   *)
C14_SelfIou ==
    (fn = "bboxes_iou" /\ args[1] = args[2] /\ bboxes_area(args[1]) > 0) =>
        out = Rat(1, 1)

\* the IoU of a box of area 6 with itself
C14_Witness ==
    /\ fn = "bboxes_iou"
    /\ args[1] = args[2]
    /\ bboxes_area(args[1]) = 6
    /\ out = Rat(1, 1)

(* C15: bboxes_area is relu(bottom - top) * relu(right - left): it is     *)
(* never negative, and it is 0 for every box with bottom <= top or        *)
(* right <= left, also when the box is inverted in both axes.             *)
C15_AreaClamped ==
    fn = "bboxes_area" =>
        LET h == args[1][BOTTOM] - args[1][TOP]
            w == args[1][RIGHT] - args[1][LEFT]
        IN  /\ out >= 0
            /\ (h <= 0 \/ w <= 0) => out = 0
            /\ (h > 0 /\ w > 0) => out = h * w

\* the area of a box inverted in both axes
C15_Witness ==
    /\ fn = "bboxes_area"
    /\ args[1][BOTTOM] < args[1][TOP]
    /\ args[1][RIGHT] < args[1][LEFT]
    /\ out = 0

(* C16: when an anchor and a gold box both have zero area, the IoU that  *)
(* the assigner uses for the pair is 0: no NaN of the division 0/0 enters *)
(* the Pass 1 arg-max or the Pass 2 maximum and comparison.               *)
C16_ZeroByZeroIsZero ==
    pc \in {"pass1", "pass2", "materialize", "done"} =>
        \A i \in Anchors : \A k \in Golds :
            (bboxes_area(anchors[i]) = 0 /\ bboxes_area(gold_bboxes[k]) = 0) =>
                iou_matrix[i, k] = Rat(0, 1)

(* C17: bboxes_training never changes its arguments: every step leaves   *)
(* anchors, gold_classes, gold_bboxes and the threshold, and the objects  *)
(* that hold them, as they were; and the two returned tensors are new     *)
(* objects, different from each other and from every argument.            *)
C17_InputsUntouched ==
    [][/\ inputs' = inputs
       /\ \A n \in {"anchors", "gold_classes", "gold_bboxes"} :
             storage'[n] = storage[n]
       /\ pc' = "done" =>
             LET given == {storage'[n] :
                              n \in {"anchors", "gold_classes", "gold_bboxes"}}
             IN  /\ storage'.anchor_classes \notin given
                 /\ storage'.anchor_bboxes \notin given
                 /\ storage'.anchor_classes # storage'.anchor_bboxes
      ]_vars

\* a call has returned targets for an assigned anchor, computed from the
\* anchors and gold boxes, in objects of its own
C17_Witness ==
    /\ pc = "done"
    /\ \E i \in Anchors : anchor_classes[i] # 0 /\ anchor_bboxes[i] # ZeroBox
    /\ storage.anchor_bboxes \notin {storage.anchors, storage.gold_bboxes}
    /\ storage.anchor_classes # storage.gold_classes

(* C18: a tensor of anchors or gold boxes whose last dimension is not 4   *)
(* makes the call fail with ShapeMismatch before anything is computed: no *)
(* assignment array, no IoU, no pass.                                     *)
C18_ShapeMismatchEager ==
    (trailing(anchors) # 4 \/ trailing(gold_bboxes) # 4) =>
        /\ pc \in {"entry", "raised"}
        /\ pc = "raised" =>
              /\ exception = "ShapeMismatch"
              /\ assigned_gold = Unallocated
              /\ iou_matrix = Unallocated

(* C19: with iou_threshold = 0, at least one gold object and anchors and *)
(* gold boxes of positive area, Pass 2 assigns every anchor that Pass 1   *)
(* left free, so no anchor of the result is background, not even one that *)
(* overlaps no gold box.                                                   *)
C19_ThresholdZeroAssignsAll ==
    (pc = "done" /\ iou_threshold = Rat(0, 1) /\ num_gold >= 1) =>
        \A i \in Anchors :
            /\ assigned_gold[i] # -1
            /\ anchor_classes[i] # 0

\* with threshold 0 an anchor that overlaps no gold box and that Pass 1 left
\* free is in the result with the class of gold 0
C19_Witness ==
    /\ pc = "done"
    /\ iou_threshold = Rat(0, 1)
    /\ \E i \in Anchors :
          /\ ~Pass1Anchor(i)
          /\ \A k \in Golds : IoU(i, k) = Rat(0, 1)
          /\ bboxes_area(anchors[i]) > 0
          /\ anchor_classes[i] = 1 + gold_classes[0]


(* C20: bboxes_to_rcnn and bboxes_from_rcnn applied to N anchors and N    *)
(* boxes (offsets) together give, for every row i, the result of applying *)
(* them to row i alone.                                                   *)
C20_BatchIsElementwise ==
    /\ fn = "bboxes_to_rcnn" =>
          \A i \in DOMAIN args.anchors :
              out[i] = bboxes_to_rcnn_batch(Row(args.anchors, i), Row(args.bboxes, i))[0]
    /\ fn = "bboxes_from_rcnn" =>
          \A i \in DOMAIN args.anchors :
              out[i] = bboxes_from_rcnn(Row(args.anchors, i), Row(args.rcnns, i))[0]

\* a batch of two different anchors and two different boxes, decoded to two
\* different rows
C20_Witness ==
    /\ fn = "bboxes_from_rcnn"
    /\ DOMAIN args.anchors = 0..1
    /\ args.anchors[0] # args.anchors[1]
    /\ args.bboxes[0] # args.bboxes[1]
    /\ args.rcnns[0] # args.rcnns[1]
    /\ out[0] # out[1]


(* C21: during one run of bboxes_training every entry of assigned_gold is *)
(* written at most once: an entry that holds a gold index is not changed  *)
(* or cleared by any later step of Pass 1 or Pass 2.                      *)
C21_WriteOnce ==
    [][\A i \in DOMAIN assigned_gold :
          assigned_gold[i] # -1 =>
              /\ i \in DOMAIN assigned_gold'
              /\ assigned_gold'[i] = assigned_gold[i]]_vars

\* Pass 2 has gone past anchor 0, which holds gold 0 from Pass 1 although
\* gold 1 has a larger IoU with it that reaches the threshold
C21_Witness ==
    /\ pc = "pass2"
    /\ a = 1
    /\ num_gold = 2
    /\ assigned_gold[0] = 0
    /\ FLess(IoU(0, 0), IoU(0, 1))
    /\ FGeq(IoU(0, 1), iou_threshold)


(* C22: once Pass 1 has finished, handling the anchors of Pass 2 in any   *)
(* order gives the final assignment of the ascending loop: the decision   *)
(* for an anchor reads only its own IoU row and its own Pass 1 status.    *)
C22_Pass2AnyOrder ==
    LET pass1 == Pass1Loop([i \in Anchors |-> -1], 0)
    IN  /\ pc = "pass2" =>
              \A i \in visited :
                  assigned_gold[i] = Pass2Update(pass1, iou_row(iou_matrix, i), i)[i]
        /\ pc \in {"materialize", "done"} =>
              assigned_gold = Pass2Loop(pass1, 0)

\* Pass 2 has handled a later anchor before an earlier one: both were free
\* after Pass 1 and both have the same best gold object, which reaches the
\* threshold and which no anchor got in Pass 1
C22_Witness ==
    /\ pc = "pass2"
    /\ num_gold = 2
    /\ Contested(1)
    /\ \E i, j \in Anchors :
          /\ i < j
          /\ i \notin visited
          /\ j \in visited
          /\ assigned_gold[i] = -1
          /\ assigned_gold[j] = 1
          /\ IsBestGold(1, i)
          /\ FGeq(IoU(i, 1), iou_threshold)


C24_Pass1Injective ==
    /\ (pc = "pass1" \/ Pass1Finished) =>
          LET assigned == {i \in Anchors : assigned_gold[i] # -1}
          IN  /\ \A i, j \in assigned :
                    assigned_gold[i] = assigned_gold[j] => i = j
              /\ \A i \in assigned : assigned_gold[i] \in Golds
              /\ Cardinality(assigned) <= num_gold
              /\ Cardinality(assigned) <= num_anchors
    /\ (pc = "done"
          /\ \A i \in Anchors : \A k \in Golds : FLess(IoU(i, k), iou_threshold)) =>
          Cardinality({i \in Anchors : anchor_classes[i] # 0}) <= num_gold

\* a result with as many non-background anchors as gold objects, under a
\* threshold above every IoU
C24_Witness ==
    /\ pc = "done"
    /\ num_gold = 2
    /\ \A i \in Anchors : \A k \in Golds : FLess(IoU(i, k), iou_threshold)
    /\ \E i, j \in Anchors :
          /\ assigned_gold[i] = 0
          /\ assigned_gold[j] = 1
          /\ anchor_classes[i] # 0
          /\ anchor_classes[j] # 0


(* C25: whenever there is at least one gold object and at least one       *)
(* anchor, the smallest-index anchor of maximum IoU against gold 0 has    *)
(* class 1 + gold_classes[0] in the result, for every threshold; so the   *)
(* result is never all background.                                        *)
C25_Gold0Wins ==
    (pc = "done" /\ num_gold >= 1 /\ num_anchors >= 1) =>
        /\ \E i \in Anchors : IsBestAnchor(i, 0)
        /\ \A i \in Anchors :
              IsBestAnchor(i, 0) =>
                  /\ assigned_gold[i] = 0
                  /\ anchor_classes[i] = 1 + gold_classes[0]
        /\ \E i \in Anchors : anchor_classes[i] # 0

\* gold 0 has its best anchor, which is not anchor 0, under a threshold
\* that its IoU with that anchor does not reach
C25_Witness ==
    /\ pc = "done"
    /\ num_gold >= 1
    /\ gold_classes[0] = 1
    /\ \E i \in Anchors :
          /\ i > 0
          /\ IsBestAnchor(i, 0)
          /\ FLess(IoU(i, 0), iou_threshold)
          /\ anchor_classes[i] = 2


(* C26: for fixed anchors and gold objects and thresholds t1 <= t2, every *)
(* anchor that is non-background at t2 is non-background at t1 and is     *)
(* assigned to the same gold object, with the same class and regression   *)
(* target.  Checked on two calls in a row, in both orders of t1 and t2.   *)
C26_ThresholdMonotone ==
    (pc = "done" /\ fn = "bboxes_training") =>
        /\ FGeq(args.iou_threshold, iou_threshold) =>
              \A i \in Anchors :
                  out.anchor_classes[i] # 0 =>
                      /\ anchor_classes[i] = out.anchor_classes[i]
                      /\ anchor_bboxes[i] = out.anchor_bboxes[i]
                      /\ assigned_gold[i] = out.assigned_gold[i]
        /\ FGeq(iou_threshold, args.iou_threshold) =>
              \A i \in Anchors :
                  anchor_classes[i] # 0 =>
                      /\ out.anchor_classes[i] = anchor_classes[i]
                      /\ out.anchor_bboxes[i] = anchor_bboxes[i]
                      /\ out.assigned_gold[i] = assigned_gold[i]

\* the second call, with a lower threshold, keeps a Pass 2 assignment of
\* the first call and adds one
C26_Witness ==
    /\ pc = "done"
    /\ fn = "bboxes_training"
    /\ FLess(iou_threshold, args.iou_threshold)
    /\ \E i, j \in Anchors :
          /\ out.assigned_gold[i] # -1
          /\ ~IsBestAnchor(i, out.assigned_gold[i])
          /\ assigned_gold[i] = out.assigned_gold[i]
          /\ out.assigned_gold[j] = -1
          /\ assigned_gold[j] # -1


(* C27: in the result every anchor assigned to a gold object k either is  *)
(* the smallest-index maximum-IoU anchor of k (Pass 1) or has an IoU with *)
(* k that is >= iou_threshold and >= its IoU with every other gold        *)
(* (Pass 2); an anchor is non-background only if it is so assigned.       *)
C27_Justified ==
    pc = "done" =>
        \A i \in Anchors :
            /\ anchor_classes[i] # 0 => assigned_gold[i] \in Golds
            /\ assigned_gold[i] # -1 =>
                  LET k == assigned_gold[i]
                  IN  \/ IsBestAnchor(i, k)
                      \/ /\ FGeq(IoU(i, k), iou_threshold)
                         /\ \A j \in Golds : FGeq(IoU(i, k), IoU(i, j))

\* a result with an anchor of each kind: one that is the best anchor of its
\* gold with an IoU below the threshold, one that is not the best anchor of
\* its gold
C27_Witness ==
    /\ pc = "done"
    /\ \E i, j \in Anchors :
          /\ assigned_gold[i] # -1
          /\ IsBestAnchor(i, assigned_gold[i])
          /\ FLess(IoU(i, assigned_gold[i]), iou_threshold)
          /\ assigned_gold[j] # -1
          /\ ~IsBestAnchor(j, assigned_gold[j])
          /\ FGeq(IoU(j, assigned_gold[j]), iou_threshold)


(* C28: a gold object whose IoU with every anchor is 0 claims anchor 0 in *)
(* Pass 1 if no earlier gold has taken anchor 0, the arg-max of an        *)
(* all-zero column being index 0; anchor 0 then has the gold's class and  *)
(* a regression target in the result although their IoU is 0.             *)
C28_ZeroOverlapClaimsAnchor0 ==
    \A k \in Golds :
        (/\ pc \in {"pass1", "pass2", "materialize", "done"}
         /\ num_anchors > 0
         /\ \A i \in Anchors : IoU(i, k) = Zero
         /\ \A j \in 0..k-1 : ~IsBestAnchor(0, j)) =>
            /\ (pc = "pass1" /\ g > k) \/ pc \in {"pass2", "materialize", "done"} =>
                  assigned_gold[0] = k
            /\ pc = "done" =>
                  /\ anchor_classes[0] = 1 + gold_classes[k]
                  /\ anchor_bboxes[0] = bboxes_to_rcnn(anchors[0], gold_bboxes[k])

\* the second of two gold objects overlaps no anchor and has anchor 0 in
\* the result, under a positive threshold; the first has anchor 1
C28_Witness ==
    /\ pc = "done"
    /\ num_anchors = 2
    /\ num_gold = 2
    /\ FLess(Zero, iou_threshold)
    /\ \A i \in Anchors : IoU(i, 1) = Zero
    /\ assigned_gold[1] = 0
    /\ assigned_gold[0] = 1
    /\ anchor_classes[0] = 2
    /\ anchor_bboxes[0] # ZeroBox


\* the two boxes do not share an interval of positive length on this axis
ApartOn(xs, ys, low, high) ==
    \/ xs[high] <= ys[low]
    \/ ys[high] <= xs[low]

(* C29: for two positive-area boxes that are disjoint or merely touching  *)
(* in at least one axis, also when they are separated in both axes,       *)
(* bboxes_iou is exactly 0.                                               *)
C29_DisjointIouZero ==
    (/\ fn = "bboxes_iou"
     /\ bboxes_area(args[1]) > 0
     /\ bboxes_area(args[2]) > 0
     /\ \/ ApartOn(args[1], args[2], TOP, BOTTOM)
        \/ ApartOn(args[1], args[2], LEFT, RIGHT)) =>
        out = Zero

\* two positive-area boxes with a gap between them on both axes
C29_Witness ==
    /\ fn = "bboxes_iou"
    /\ bboxes_area(args[1]) > 0
    /\ bboxes_area(args[2]) > 0
    /\ args[1][BOTTOM] < args[2][TOP]
    /\ args[1][RIGHT] < args[2][LEFT]
    /\ out = Zero


(* C30: custom_collate pads the gold classes of each image with -1 and    *)
(* its gold boxes with zero boxes up to the longest list of the batch,    *)
(* and compute_loss keeps the entries of class # -1; so for every image   *)
(* whose classes are non-negative the gold list that goes to              *)
(* bboxes_training is the original list in the original order, and no     *)
(* padding entry reaches it.                                              *)
C30_PaddingRoundTrip ==
    /\ fn = "custom_collate" =>
          \A i \in DOMAIN args :
              LET num == Len(args[i].cls)
              IN  /\ Len(out.padded_classes[i]) = max_len(args)
                  /\ Len(out.padded_bboxes[i]) = max_len(args)
                  /\ \A k \in 1..num :
                        /\ out.padded_classes[i][k] = args[i].cls[k]
                        /\ out.padded_bboxes[i][k] = args[i].bboxes[k]
                  /\ \A k \in (num + 1)..max_len(args) :
                        /\ out.padded_classes[i][k] = -1
                        /\ out.padded_bboxes[i][k] = Box(0, 0, 0, 0)
    /\ fn = "compute_loss" =>
          \A i \in DOMAIN args :
              (\A k \in DOMAIN args[i].cls : args[i].cls[k] >= 0) =>
                  /\ out[i].gold_classes = args[i].cls
                  /\ out[i].gold_bboxes = args[i].bboxes
                  /\ \A k \in DOMAIN out[i].gold_classes :
                        out[i].gold_classes[k] # -1

\* a batch of an image with two objects, the first of class 0, and an image
\* with fewer, after the filter
C30_Witness ==
    /\ fn = "compute_loss"
    /\ Len(args) = 2
    /\ Len(args[1].cls) = 2
    /\ args[1].cls[1] = 0
    /\ Len(args[2].cls) < 2
    /\ out[1].gold_classes = args[1].cls
    /\ out[2].gold_bboxes = args[2].bboxes

====
